---- MODULE Spec2Model ----
(***************************************************************************)
(* The e-commerce return-analysis batch pipeline as a state machine:      *)
(*   data_cleaning.py  -> return_analysis.py -> return_prediction_model.py *)
(* Tables are pandas DataFrames: an ordered list of column names and a     *)
(* sequence of rows, each row a function from column name to cell.         *)
(***************************************************************************)
EXTENDS Integers, Sequences, FiniteSets, TLC

VARIABLES
    threshold,      \* config.RETURN_THRESHOLD
    raw,            \* the DataFrame read from config.RAW_DATA_PATH
    pc,             \* how far the scripts have run
    df_clean,       \* data_cleaning.py: the table load_and_clean_data returns
    cleaned_file,   \* the file at config.CLEANED_DATA_PATH
    df,             \* return_analysis.py: the table load_cleaned_data returns
    results,        \* what comprehensive_return_analysis returns
    df_enhanced,    \* what create_analysis_dataset returns
    analysis_file,  \* the file at config.ANALYSIS_DATA_PATH
    data,           \* return_prediction_model.py: the table read from the analysis file
    X,              \* prepare_features: the feature matrix
    y,              \* prepare_features: the labels
    label_encoders, \* prepare_features: the fitted LabelEncoder of each feature
    model,          \* train_return_prediction_model: what it returns
    population,     \* the table handed to identify_high_risk_products
    df_with_risk,   \* identify_high_risk_products: the scored table
    high_risk_products, \* identify_high_risk_products: the high-risk rows
    high_risk_file  \* the file at config.HIGH_RISK_PRODUCTS_PATH

pipeVars == <<threshold, raw, df_clean, cleaned_file, df, results, df_enhanced,
              analysis_file>>

modelVars == <<data, X, y, label_encoders, model, population, df_with_risk,
               high_risk_products, high_risk_file>>

vars == <<pc, pipeVars, modelVars>>

(***************************************************************************)
(* Bounds of the model.                                                    *)
(***************************************************************************)
\* longest raw table of freely mixed rows
MaxRows == 2
\* largest number of rows sharing one Version in the block-shaped raw tables
MaxOrders == 11

(***************************************************************************)
(* Text.  A Python str is a sequence of one-character strings; CodePoint   *)
(* gives the order Python and numpy sort them by.                          *)
(***************************************************************************)
Digits == <<"0", "1", "2", "3", "4", "5", "6", "7", "8", "9">>

DigitSet == {Digits[i] : i \in 1..10}

DigitVal(c) == (CHOOSE i \in 1..10 : Digits[i] = c) - 1

CodePoint(c) ==
    CASE c = " " -> 32
      [] c = "+" -> 43
      [] c = "-" -> 45
      [] c = "." -> 46
      [] c = "/" -> 47
      [] c \in DigitSet -> 48 + DigitVal(c)
      [] c = "A" -> 65
      [] c = "B" -> 66
      [] c = "C" -> 67
      [] c = "E" -> 69
      [] c = "L" -> 76
      [] c = "M" -> 77
      [] c = "N" -> 78
      [] c = "R" -> 82
      [] c = "S" -> 83
      [] c = "a" -> 97
      [] c = "e" -> 101
      [] c = "n" -> 110

RECURSIVE StrLess(_, _)
\* Python's s < t on str: lexicographic by code point
StrLess(s, t) ==
    IF t = <<>> THEN FALSE
    ELSE IF s = <<>> THEN TRUE
    ELSE IF Head(s) = Head(t) THEN StrLess(Tail(s), Tail(t))
    ELSE CodePoint(Head(s)) < CodePoint(Head(t))

\* position of the first character of s that is in cs, or 0
FirstIn(s, cs) ==
    IF \E i \in 1..Len(s) : s[i] \in cs
    THEN CHOOSE i \in 1..Len(s) : s[i] \in cs /\ \A j \in 1..(i - 1) : s[j] \notin cs
    ELSE 0

\* str.split('/')[0]
SplitFirst(s) ==
    LET i == FirstIn(s, {"/"}) IN IF i = 0 THEN s ELSE SubSeq(s, 1, i - 1)

RECURSIVE LStrip(_)
LStrip(s) == IF s # <<>> /\ Head(s) = " " THEN LStrip(Tail(s)) ELSE s

RECURSIVE RStrip(_)
RStrip(s) ==
    IF s # <<>> /\ s[Len(s)] = " " THEN RStrip(SubSeq(s, 1, Len(s) - 1)) ELSE s

\* str.strip()
Strip(s) == RStrip(LStrip(s))

IsDigits(s) == s # <<>> /\ \A i \in 1..Len(s) : s[i] \in DigitSet

RECURSIVE DigitsVal(_)
DigitsVal(s) ==
    IF s = <<>> THEN 0 ELSE 10 * DigitsVal(SubSeq(s, 1, Len(s) - 1)) + DigitVal(s[Len(s)])

\* str(n) for an int n
RECURSIVE FormatNat(_)
FormatNat(n) ==
    IF n < 10 THEN <<Digits[n + 1]>>
    ELSE Append(FormatNat(n \div 10), Digits[(n % 10) + 1])

FormatInt(n) == IF n < 0 THEN <<"-">> \o FormatNat(0 - n) ELSE FormatNat(n)

RECURSIVE Pow10(_)
Pow10(n) == IF n <= 0 THEN 1 ELSE 10 * Pow10(n - 1)

(***************************************************************************)
(* Cells.  A cell is a tagged tuple: a number, a str, a Timestamp, a       *)
(* monthly Period, or one of the missing markers NaN and NaT.              *)
(***************************************************************************)
NA == <<"nan">>

NaT == <<"nat">>

Num(n) == <<"num", n>>

Str(s) == <<"str", s>>

Timestamp(yr, m, d) == <<"date", yr, m, d>>

Period(yr, m) == <<"period", yr, m>>

Tag(c) == c[1]

\* pd.notna / pd.isna
IsNA(c) == c \in {NA, NaT}

IsNum(c) == Tag(c) = "num"

IsStr(c) == Tag(c) = "str"

\* the text "nan", which is what astype(str) makes of a missing value
NanText == <<"n", "a", "n">>

(***************************************************************************)
(* Tables.                                                                 *)
(***************************************************************************)
NoTable == [cols |-> <<>>, rows |-> <<>>]

ColSet(t) == {t.cols[i] : i \in 1..Len(t.cols)}

\* df[c] = values, one value per row: a new column goes last, an old one
\* keeps its place
SetColumn(t, c, values) ==
    [cols |-> IF c \in ColSet(t) THEN t.cols ELSE Append(t.cols, c),
     rows |-> [i \in 1..Len(t.rows) |->
                 [k \in ColSet(t) \cup {c} |->
                     IF k = c THEN values[i] ELSE t.rows[i][k]]]]

Column(t, c) == [i \in 1..Len(t.rows) |-> t.rows[i][c]]

\* a column pandas holds with a numeric dtype: numbers and NaN only
IsNumericCol(t, c) == \A i \in 1..Len(t.rows) : IsNum(t.rows[i][c]) \/ t.rows[i][c] = NA

(***************************************************************************)
(* data_cleaning.py: load_and_clean_data                                   *)
(***************************************************************************)
\* the columns of the raw extract that the scripts read
RawColumns ==
    <<"Transaction ID", "Item ID", "Item Name", "Category", "Version", "Date",
      "Final Quantity", "Final Revenue", "Total Revenue", "Price Reductions",
      "Sales Tax", "Purchased Item Count">>

\* what an expression evaluates to when it raises ValueError
ValueError == <<"ValueError">>

\* int(float(s)) for a str s: an optional sign, digits with an optional
\* fraction, an optional exponent; anything else makes float() raise.
\* int() truncates toward zero.
IntOfFloatText(text) ==
    LET s     == Strip(text)
        neg   == s # <<>> /\ Head(s) = "-"
        u     == IF s # <<>> /\ Head(s) \in {"+", "-"} THEN Tail(s) ELSE s
        e     == FirstIn(u, {"e", "E"})
        mant  == IF e = 0 THEN u ELSE SubSeq(u, 1, e - 1)
        expo  == IF e = 0 THEN <<>> ELSE SubSeq(u, e + 1, Len(u))
        expd  == IF expo # <<>> /\ Head(expo) = "+" THEN Tail(expo) ELSE expo
        dot   == FirstIn(mant, {"."})
        ip    == IF dot = 0 THEN mant ELSE SubSeq(mant, 1, dot - 1)
        fp    == IF dot = 0 THEN <<>> ELSE SubSeq(mant, dot + 1, Len(mant))
        ok    == /\ IsDigits(ip)
                 /\ fp = <<>> \/ IsDigits(fp)
                 /\ e = 0 \/ IsDigits(expd)
        x     == IF e = 0 THEN 0 ELSE DigitsVal(expd)
        m     == DigitsVal(ip \o fp)
        mag   == IF x >= Len(fp) THEN m * Pow10(x - Len(fp))
                 ELSE m \div Pow10(Len(fp) - x)
    IN  IF ok THEN Num(IF neg THEN 0 - mag ELSE mag) ELSE ValueError

\* lambda x: int(float(x)) if pd.notna(x) else x
ConvertId(x) ==
    IF IsNA(x) THEN x
    ELSE IF IsStr(x) THEN IntOfFloatText(x[2])
    ELSE x

IsLeap(yr) == (yr % 4 = 0 /\ yr % 100 # 0) \/ yr % 400 = 0

DaysIn(yr, m) ==
    IF m = 2 THEN (IF IsLeap(yr) THEN 29 ELSE 28)
    ELSE IF m \in {4, 6, 9, 11} THEN 30 ELSE 31

\* pd.to_datetime(x, format=config.DATE_FORMAT, errors='coerce') for one cell,
\* with the format "%Y-%m-%d": text that does not parse becomes NaT
ParseDate(x) ==
    IF ~IsStr(x) THEN NaT
    ELSE LET s == x[2] IN
         IF /\ Len(s) = 10
            /\ s[5] = "-" /\ s[8] = "-"
            /\ IsDigits(SubSeq(s, 1, 4)) /\ IsDigits(SubSeq(s, 6, 7))
            /\ IsDigits(SubSeq(s, 9, 10))
         THEN LET yr == DigitsVal(SubSeq(s, 1, 4))
                  m == DigitsVal(SubSeq(s, 6, 7))
                  d == DigitsVal(SubSeq(s, 9, 10))
              IN  IF yr >= 1 /\ m \in 1..12 /\ d \in 1..DaysIn(yr, m)
                  THEN Timestamp(yr, m, d) ELSE NaT
         ELSE NaT

\* (x < config.RETURN_THRESHOLD).astype(int): a comparison with NaN is False
ReturnFlag(x, thr) == IF IsNum(x) /\ x[2] < thr THEN 1 ELSE 0

\* astype(str) for one cell: a str is itself, an int its digits, a missing value "nan"
AsText(x) ==
    IF IsStr(x) THEN x[2] ELSE IF IsNum(x) THEN FormatInt(x[2]) ELSE NanText

\* .astype(str).str.split('/').str[0].str.strip()
VersionClean(x) == Str(Strip(SplitFirst(AsText(x))))

\* df[numeric_cols] = df[numeric_cols].fillna(0), numeric_cols chosen by dtype
FillNumeric(t) ==
    [cols |-> t.cols,
     rows |-> [i \in 1..Len(t.rows) |->
                 [k \in ColSet(t) |->
                     IF IsNumericCol(t, k) /\ t.rows[i][k] = NA
                     THEN Num(0) ELSE t.rows[i][k]]]]

\* Series.abs() for one cell
AbsCell(x) == IF IsNum(x) /\ x[2] < 0 THEN Num(0 - x[2]) ELSE x

\* the identifier conversion raises on some row
IdRaises(t) ==
    \E i \in 1..Len(t.rows) :
        \E c \in {"Transaction ID", "Item ID"} : ConvertId(t.rows[i][c]) = ValueError

\* df_clean[c] = df_clean[c].apply(lambda x: int(float(x)) if pd.notna(x) else x)
WithIntId(t, c) ==
    SetColumn(t, c, [i \in 1..Len(t.rows) |-> ConvertId(t.rows[i][c])])

\* df_clean['Date'] = pd.to_datetime(df_clean['Date'], ...)
WithDate(t) ==
    SetColumn(t, "Date", [i \in 1..Len(t.rows) |-> ParseDate(t.rows[i]["Date"])])

\* df_clean['is_return'] = (df_clean['Final Quantity'] < threshold).astype(int)
WithReturnFlag(t, thr) ==
    SetColumn(t, "is_return",
              [i \in 1..Len(t.rows) |-> Num(ReturnFlag(t.rows[i]["Final Quantity"], thr))])

\* the cleaned version written over the Version column under the new name
WithVersionRenamed(t) ==
    [cols |-> [j \in 1..Len(t.cols) |->
                 IF t.cols[j] = "Version" THEN "Version_clean" ELSE t.cols[j]],
     rows |-> [i \in 1..Len(t.rows) |->
                 [k \in (ColSet(t) \ {"Version"}) \cup {"Version_clean"} |->
                     IF k = "Version_clean" THEN VersionClean(t.rows[i]["Version"])
                     ELSE t.rows[i][k]]]]

\* df_clean['Version_clean'] = ...
WithVersionClean(t) ==
    SetColumn(t, "Version_clean",
              [i \in 1..Len(t.rows) |-> VersionClean(t.rows[i]["Version"])])

\* df_clean[c] = df_clean[from].abs()
WithAbs(t, c, from) ==
    SetColumn(t, c, [i \in 1..Len(t.rows) |-> AbsCell(t.rows[i][from])])

\* the table load_and_clean_data returns when nothing raises
CleanTable(t, thr) ==
    WithAbs(WithAbs(FillNumeric(WithVersionClean(WithReturnFlag(WithDate(
        WithIntId(WithIntId(t, "Transaction ID"), "Item ID")), thr))),
        "Final_Revenue_Abs", "Final Revenue"),
        "Total_Revenue_Abs", "Total Revenue")

(***************************************************************************)
(* The raw tables the model starts from.                                   *)
(***************************************************************************)
BaseRow ==
    [c \in {RawColumns[i] : i \in 1..Len(RawColumns)} |->
        CASE c = "Transaction ID" -> Num(1001)
          [] c = "Item ID" -> Num(7)
          [] c = "Item Name" -> Str(<<"C", "a", "n">>)
          [] c = "Category" -> Str(<<"B">>)
          [] c = "Version" -> Str(<<"S", "/", "R">>)
          [] c = "Date" -> Str(<<"2", "0", "2", "3", "-", "0", "1", "-", "1", "5">>)
          [] c = "Final Quantity" -> Num(1)
          [] c = "Final Revenue" -> Num(20)
          [] c = "Total Revenue" -> Num(25)
          [] c = "Price Reductions" -> Num(0)
          [] c = "Sales Tax" -> Num(2)
          [] c = "Purchased Item Count" -> Num(1)]

With(r, c, v) == [r EXCEPT ![c] = v]

TidValues == {Num(1001), Str(<<"1", ".", "2", "E", "+", "3">>), NA, Str(<<"A", "B">>)}

IidValues == {Num(7), Str(<<"7", "e", "1">>), Str(<<"N", "a">>)}

QtyValues == {Num(0 - 1), Num(0), Num(1), NA}

DateValues ==
    {Str(<<"2", "0", "2", "3", "-", "0", "1", "-", "1", "5">>),
     Str(<<"2", "0", "2", "3", "-", "0", "2", "-", "3", "0">>),
     NA}

RevenueValues == {Num(0 - 20), Num(20), NA}

CategoryValues == {Str(<<"B">>), Str(<<"A">>), NA}

VersionValues ==
    {Str(<<"S", "/", "R">>), Str(<<" ", "M", " ", "/", "R">>), Str(<<"/", "R">>),
     Str(<<"n", "a", "n", "/", "R">>), NA}

Thresholds == {0 - 1, 0, 1}

\* one-row tables: every combination of the values the cleaning pass treats apart
SingleRows ==
    {With(With(With(With(With(With(BaseRow,
        "Transaction ID", tid), "Item ID", iid), "Final Quantity", q),
        "Date", d), "Final Revenue", rv), "Version", v) :
        <<tid, iid, q, d, rv, v>> \in
            TidValues \X IidValues \X QtyValues \X DateValues \X RevenueValues
            \X {Str(<<"S", "/", "R">>), NA}}

\* rows that cleaning accepts and that differ in what the groupings key on
GroupRows ==
    {With(With(BaseRow, "Category", c), "Final Quantity", q) :
        <<c, q>> \in CategoryValues \X {Num(0 - 1), Num(1)}}
    \cup {With(BaseRow, "Version", v) : v \in VersionValues}
    \cup {With(BaseRow, "Date", d) : d \in DateValues}

RECURSIVE SeqsUpTo(_, _)
\* the sequences over S of length at most n
SeqsUpTo(S, n) ==
    IF n = 0 THEN {<<>>}
    ELSE LET shorter == SeqsUpTo(S, n - 1)
         IN  shorter \cup {Append(s, x) : s \in {q \in shorter : Len(q) = n - 1}, x \in S}

Repeat(r, n) == [i \in 1..n |-> r]

\* block-shaped tables: n orders of one version and m of another, k of them returns
BlockTables ==
    {Repeat(With(BaseRow, "Final Quantity", Num(0 - 1)), k)
        \o Repeat(BaseRow, n - k)
        \o Repeat(With(BaseRow, "Version", Str(<<"M">>)), m) :
        <<n, m, k>> \in {x \in (0..MaxOrders) \X (0..MaxOrders) \X (0..1) : x[3] <= x[1] /\ x[1] + x[2] >= 1}}

\* a raw extract that also carries the buyer column, which no script reads
WithBuyer(r) ==
    [c \in DOMAIN r \cup {"Buyer ID"} |-> IF c = "Buyer ID" THEN Num(42) ELSE r[c]]

RawTables ==
    {[cols |-> RawColumns, rows |-> rs] :
        rs \in {<<r>> : r \in SingleRows}
                 \cup (SeqsUpTo(GroupRows, MaxRows) \ {<<>>})
                 \cup BlockTables}
    \cup {[cols |-> Append(RawColumns, "Buyer ID"), rows |-> <<WithBuyer(r)>>] :
              r \in GroupRows}

\* nothing of return_prediction_model.py has run
NoModel == [fitted |-> FALSE]

ModelNotRun ==
    /\ data = NoTable
    /\ X = NoTable
    /\ y = <<>>
    /\ label_encoders = <<>>
    /\ model = NoModel
    /\ population = NoTable
    /\ df_with_risk = NoTable
    /\ high_risk_products = NoTable
    /\ high_risk_file = NoTable

(***************************************************************************)
(* The pipeline.                                                           *)
(***************************************************************************)
Init ==
    /\ threshold \in Thresholds
    /\ raw \in RawTables
    /\ pc = "start"
    /\ df_clean = NoTable
    /\ cleaned_file = NoTable
    /\ df = NoTable
    /\ results = <<>>
    /\ df_enhanced = NoTable
    /\ analysis_file = NoTable
    /\ ModelNotRun

\* data_cleaning.py, load_and_clean_data(): either the cleaned table, or the
\* ValueError of the identifier conversion, which ends the script
LoadAndClean ==
    /\ pc = "start"
    /\ IF IdRaises(raw)
       THEN /\ pc' = "clean_error"
            /\ df_clean' = df_clean
       ELSE /\ pc' = "cleaned"
            /\ df_clean' = CleanTable(raw, threshold)
    /\ UNCHANGED <<threshold, raw, cleaned_file, df, results, df_enhanced,
                   analysis_file, modelVars>>

(***************************************************************************)
(* Files.  to_csv writes every cell as text; read_csv infers each column   *)
(* back from the text.                                                     *)
(***************************************************************************)
RECURSIVE ZeroPad(_, _)
ZeroPad(s, w) == IF Len(s) >= w THEN s ELSE ZeroPad(<<"0">> \o s, w)

\* the text to_csv writes for one cell; a missing value is the empty field
CsvField(x) ==
    CASE IsNum(x) -> FormatInt(x[2])
      [] IsStr(x) -> x[2]
      [] Tag(x) = "date" ->
            ZeroPad(FormatNat(x[2]), 4) \o <<"-">> \o ZeroPad(FormatNat(x[3]), 2)
            \o <<"-">> \o ZeroPad(FormatNat(x[4]), 2)
      [] Tag(x) = "period" ->
            ZeroPad(FormatNat(x[2]), 4) \o <<"-">> \o ZeroPad(FormatNat(x[3]), 2)
      [] OTHER -> <<>>

\* DataFrame.to_csv(path, index=False)
ToCsv(t) ==
    [cols |-> t.cols,
     rows |-> [i \in 1..Len(t.rows) |-> [k \in ColSet(t) |-> CsvField(t.rows[i][k])]]]

\* read_csv's default na_values, as far as the model's alphabet spells them
NaStrings ==
    {<<>>, <<"n", "a", "n">>, <<"N", "a", "N">>, <<"N", "A">>, <<"N", "/", "A">>,
     <<"n", "/", "a">>}

\* read_csv(path, parse_dates=dates): a field spelling a missing value is NaN,
\* a column of numbers is numeric, any other column holds str
ReadCsv(f, dates) ==
    LET numeric(k) ==
            \A i \in 1..Len(f.rows) :
                f.rows[i][k] \in NaStrings \/ IntOfFloatText(f.rows[i][k]) # ValueError
        cell(i, k) ==
            LET s == f.rows[i][k] IN
            IF k \in dates THEN ParseDate(Str(s))
            ELSE IF s \in NaStrings THEN NA
            ELSE IF numeric(k) THEN IntOfFloatText(s)
            ELSE Str(s)
    IN  [cols |-> f.cols,
         rows |-> [i \in 1..Len(f.rows) |-> [k \in ColSet(f) |-> cell(i, k)]]]

\* data_cleaning.py __main__: cleaned_df.to_csv(config.CLEANED_DATA_PATH, index=False)
SaveCleaned ==
    /\ pc = "cleaned"
    /\ cleaned_file' = ToCsv(df_clean)
    /\ pc' = "cleaned_saved"
    /\ UNCHANGED <<threshold, raw, df_clean, df, results, df_enhanced, analysis_file,
                   modelVars>>

\* return_analysis.py, load_cleaned_data()
LoadCleanedData ==
    /\ pc = "cleaned_saved"
    /\ df' = ReadCsv(cleaned_file, {"Date"})
    /\ pc' = "loaded"
    /\ UNCHANGED <<threshold, raw, df_clean, cleaned_file, results, df_enhanced,
                   analysis_file, modelVars>>

(***************************************************************************)
(* return_analysis.py: comprehensive_return_analysis                       *)
(***************************************************************************)
\* the order groupby and sort_values put two keys of one column in
CellLess(a, b) ==
    CASE IsStr(a) /\ IsStr(b) -> StrLess(a[2], b[2])
      [] IsNum(a) /\ IsNum(b) -> a[2] < b[2]
      [] Tag(a) = "period" /\ Tag(b) = "period" ->
            a[2] < b[2] \/ (a[2] = b[2] /\ a[3] < b[3])
      [] OTHER -> Tag(a) = "num" /\ Tag(b) # "num"

RECURSIVE SortedKeys(_)
\* the keys of a groupby in ascending order (sort=True)
SortedKeys(ks) ==
    IF ks = {} THEN <<>>
    ELSE LET least == CHOOSE k \in ks : \A o \in ks \ {k} : CellLess(k, o)
         IN  <<least>> \o SortedKeys(ks \ {least})

RECURSIVE SumOver(_, _, _)
\* Series.sum() of column c over the rows numbered in idx
SumOver(t, c, idx) ==
    IF idx = {} THEN 0
    ELSE LET i == CHOOSE j \in idx : TRUE
         IN  t.rows[i][c][2] + SumOver(t, c, idx \ {i})

RECURSIVE SumOverSet(_, _)
\* the sum of f[x] over x in S
SumOverSet(S, f) ==
    IF S = {} THEN 0
    ELSE LET e == CHOOSE x \in S : TRUE
         IN  f[e] + SumOverSet(S \ {e}, f)

\* round(num / den, 3) in thousandths, halves to even
Round3(num, den) ==
    LET q == (1000 * num) \div den
        r == (1000 * num) % den
    IN  IF 2 * r > den \/ (2 * r = den /\ q % 2 = 1) THEN q + 1 ELSE q

\* df.groupby(c): the row numbers of each group; rows with a missing key
\* belong to no group (dropna=True)
GroupKeys(t, c) == {t.rows[i][c] : i \in 1..Len(t.rows)} \ {NA, NaT}

GroupRowsOf(t, c, k) == {i \in 1..Len(t.rows) : t.rows[i][c] = k}

\* .agg({'is_return': ['count', 'sum', 'mean'], <revenue>: 'sum'}).round(3), one
\* record per group in key order
Aggregate(t, c) ==
    LET keys == SortedKeys(GroupKeys(t, c))
    IN  [n \in 1..Len(keys) |->
            LET idx == GroupRowsOf(t, c, keys[n])
            IN  [key |-> keys[n],
                 total_orders |-> Cardinality(idx),
                 returns |-> SumOver(t, "is_return", idx),
                 return_rate |-> Round3(SumOver(t, "is_return", idx), Cardinality(idx)),
                 final_revenue |-> SumOver(t, "Final_Revenue_Abs", idx),
                 total_revenue |-> SumOver(t, "Total_Revenue_Abs", idx)]]

RECURSIVE InsertByRate(_, _)
InsertByRate(sorted, g) ==
    IF sorted = <<>> THEN <<g>>
    ELSE IF Head(sorted).return_rate >= g.return_rate
         THEN <<Head(sorted)>> \o InsertByRate(Tail(sorted), g)
         ELSE <<g>> \o sorted

RECURSIVE SortByRateDesc(_)
\* sort_values('return_rate', ascending=False); equal rates keep their order
SortByRateDesc(gs) ==
    IF gs = <<>> THEN <<>>
    ELSE InsertByRate(SortByRateDesc(SubSeq(gs, 1, Len(gs) - 1)), gs[Len(gs)])

\* the least number of orders a version must exceed to be ranked
MinVersionOrders == 10

\* version_analysis[version_analysis['total_orders'] > 10]
KeepVersion(g) == g.total_orders > MinVersionOrders

\* df['Date'].dt.to_period('M') for one row
YearMonth(r) ==
    IF Tag(r["Date"]) = "date" THEN Period(r["Date"][2], r["Date"][3]) ELSE NaT

Project(gs, fields) == [n \in 1..Len(gs) |-> [f \in fields |-> gs[n][f]]]

\* df as comprehensive_return_analysis leaves it: it assigns df['year_month']
\* on the caller's table
WithYearMonth(t) ==
    SetColumn(t, "year_month", [i \in 1..Len(t.rows) |-> YearMonth(t.rows[i])])

CategoryAnalysis(t) == SortByRateDesc(Aggregate(t, "Category"))

MonthlyTrends(t) ==
    Project(Aggregate(WithYearMonth(t), "year_month"),
            {"key", "total_orders", "returns", "return_rate", "final_revenue"})

\* the version groups before the minimum-order filter
VersionGroups(t) ==
    Project(Aggregate(t, "Version_clean"), {"key", "total_orders", "return_rate"})

VersionAnalysis(t) == SortByRateDesc(SelectSeq(VersionGroups(t), KeepVersion))

OverallMetrics(t) ==
    [total_orders |-> Len(t.rows),
     total_returns |-> SumOver(t, "is_return", 1..Len(t.rows)),
     overall_return_rate |->
        <<SumOver(t, "is_return", 1..Len(t.rows)), Len(t.rows)>>]

ComprehensiveReturnAnalysis ==
    /\ pc = "loaded"
    /\ results' = [category_analysis |-> CategoryAnalysis(df),
                   monthly_trends |-> MonthlyTrends(df),
                   version_analysis |-> VersionAnalysis(df),
                   overall_metrics |-> OverallMetrics(df)]
    /\ df' = WithYearMonth(df)
    /\ pc' = "analysed"
    /\ UNCHANGED <<threshold, raw, df_clean, cleaned_file, df_enhanced, analysis_file,
                   modelVars>>

(***************************************************************************)
(* return_analysis.py: create_analysis_dataset                             *)
(***************************************************************************)
RECURSIVE DaysBeforeMonth(_, _)
DaysBeforeMonth(yr, m) == IF m <= 1 THEN 0 ELSE DaysBeforeMonth(yr, m - 1) + DaysIn(yr, m - 1)

DayOfYear(yr, m, d) == DaysBeforeMonth(yr, m) + d

\* the proleptic Gregorian ordinal: 0001-01-01, a Monday, is day 1
Ordinal(yr, m, d) ==
    365 * (yr - 1) + ((yr - 1) \div 4) - ((yr - 1) \div 100) + ((yr - 1) \div 400)
    + DayOfYear(yr, m, d)

\* Monday = 1 ... Sunday = 7
IsoWeekday(yr, m, d) == ((Ordinal(yr, m, d) - 1) % 7) + 1

IsoWeeksIn(yr) ==
    IF IsoWeekday(yr, 1, 1) = 4 \/ (IsLeap(yr) /\ IsoWeekday(yr, 1, 1) = 3) THEN 53 ELSE 52

\* Series.dt.isocalendar().week for one Timestamp
IsoWeek(yr, m, d) ==
    LET w == (DayOfYear(yr, m, d) - IsoWeekday(yr, m, d) + 10) \div 7
    IN  IF w < 1 THEN IsoWeeksIn(yr - 1)
        ELSE IF w > IsoWeeksIn(yr) THEN 1
        ELSE w

DayNames ==
    <<<<"M", "o", "n", "d", "a", "y">>, <<"T", "u", "e", "s", "d", "a", "y">>,
      <<"W", "e", "d", "n", "e", "s", "d", "a", "y">>,
      <<"T", "h", "u", "r", "s", "d", "a", "y">>, <<"F", "r", "i", "d", "a", "y">>,
      <<"S", "a", "t", "u", "r", "d", "a", "y">>, <<"S", "u", "n", "d", "a", "y">>>>

OrderWeek(r) ==
    LET x == r["Date"]
    IN  IF Tag(x) = "date" THEN Num(IsoWeek(x[2], x[3], x[4])) ELSE NA

OrderDay(r) ==
    LET x == r["Date"]
    IN  IF Tag(x) = "date" THEN Str(DayNames[IsoWeekday(x[2], x[3], x[4])]) ELSE NA

RevenueLoss(r) == Num(r["is_return"][2] * r["Final_Revenue_Abs"][2])

\* df_enhanced: a copy of df with the derived columns
EnhancedTable(t) ==
    LET n == Len(t.rows)
    IN  SetColumn(SetColumn(SetColumn(SetColumn(t,
            "order_month", [i \in 1..n |-> YearMonth(t.rows[i])]),
            "order_week", [i \in 1..n |-> OrderWeek(t.rows[i])]),
            "order_day", [i \in 1..n |-> OrderDay(t.rows[i])]),
            "revenue_loss", [i \in 1..n |-> RevenueLoss(t.rows[i])])

CreateAnalysisDataset ==
    /\ pc = "analysed"
    /\ df_enhanced' = EnhancedTable(df)
    /\ analysis_file' = ToCsv(EnhancedTable(df))
    /\ pc' = "enhanced"
    /\ UNCHANGED <<threshold, raw, df_clean, cleaned_file, df, results, modelVars>>

Next ==
    \/ LoadAndClean
    \/ SaveCleaned
    \/ LoadCleanedData
    \/ ComprehensiveReturnAnalysis
    \/ CreateAnalysisDataset

Spec == Init /\ [][Next]_vars

(***************************************************************************)
(* return_prediction_model.py: prepare_features                            *)
(***************************************************************************)
Features ==
    <<"Category_encoded", "Version_clean_encoded", "Total_Revenue_Abs",
      "Price Reductions", "Sales Tax", "Final_Revenue_Abs", "Purchased Item Count">>

CategoricalFeatures == {"Category", "Version_clean"}

RECURSIVE SortedTexts(_)
\* np.unique of a set of str: ascending by code point
SortedTexts(S) ==
    IF S = {} THEN <<>>
    ELSE LET least == CHOOSE s \in S : \A o \in S \ {s} : StrLess(s, o)
         IN  <<least>> \o SortedTexts(S \ {least})

RECURSIVE FirstSeenOrder(_)
\* the distinct values in the order they are first met
FirstSeenOrder(values) ==
    IF values = <<>> THEN <<>>
    ELSE LET front == SubSeq(values, 1, Len(values) - 1)
             last == values[Len(values)]
         IN  IF \E i \in 1..Len(front) : front[i] = last
             THEN FirstSeenOrder(front)
             ELSE Append(FirstSeenOrder(front), last)

\* a variant that numbers the classes as they are first met
FitClassesFirstSeen(values) == FirstSeenOrder(values)

\* LabelEncoder.fit(values): classes_
FitClasses(values) == SortedTexts({values[i] : i \in 1..Len(values)})

\* a variant with an "unknown" code for values the encoder was not fitted on
TransformLabelUnknown(classes, s) ==
    IF \E i \in 1..Len(classes) : classes[i] = s
    THEN Num((CHOOSE i \in 1..Len(classes) : classes[i] = s) - 1)
    ELSE Num(Len(classes))

\* LabelEncoder.transform for one value: its position in classes_, counted
\* from 0; a value that is not in classes_ raises ValueError
TransformLabel(classes, s) ==
    IF \E i \in 1..Len(classes) : classes[i] = s
    THEN Num((CHOOSE i \in 1..Len(classes) : classes[i] = s) - 1)
    ELSE ValueError

\* feature_df[feature].astype(str)
TextColumn(t, c) == [i \in 1..Len(t.rows) |-> AsText(t.rows[i][c])]

\* label_encoders after the loop of prepare_features
FittedEncoders(t) == [f \in CategoricalFeatures |-> FitClasses(TextColumn(t, f))]

\* feature_df with the two *_encoded columns
EncodeTable(t, encoders) ==
    LET n == Len(t.rows)
    IN  SetColumn(SetColumn(t,
            "Category_encoded",
            [i \in 1..n |-> TransformLabel(encoders["Category"],
                                           AsText(t.rows[i]["Category"]))]),
            "Version_clean_encoded",
            [i \in 1..n |-> TransformLabel(encoders["Version_clean"],
                                           AsText(t.rows[i]["Version_clean"]))])

\* le.transform raises on some row
TransformRaises(t, encoders) ==
    \E i \in 1..Len(t.rows) : \E f \in CategoricalFeatures :
        TransformLabel(encoders[f], AsText(t.rows[i][f])) = ValueError

\* df[columns]
SelectColumns(t, columns) ==
    [cols |-> columns,
     rows |-> [i \in 1..Len(t.rows) |->
                 [k \in {columns[j] : j \in 1..Len(columns)} |-> t.rows[i][k]]]]

\* __main__: df = pd.read_csv(config.ANALYSIS_DATA_PATH, parse_dates=['Date'])
LoadAnalysisData ==
    /\ pc = "enhanced"
    /\ data' = ReadCsv(analysis_file, {"Date"})
    /\ pc' = "model_loaded"
    /\ UNCHANGED <<pipeVars, X, y, label_encoders, model, population, df_with_risk,
                   high_risk_products, high_risk_file>>

PrepareFeatures ==
    /\ pc = "model_loaded"
    /\ label_encoders' = FittedEncoders(data)
    /\ X' = SelectColumns(EncodeTable(data, FittedEncoders(data)), Features)
    /\ y' = Column(data, "is_return")
    /\ pc' = "prepared"
    /\ UNCHANGED <<pipeVars, data, model, population, df_with_risk,
                   high_risk_products, high_risk_file>>

(***************************************************************************)
(* return_prediction_model.py: train_return_prediction_model.  The split,  *)
(* the fit and the evaluation are scikit-learn's; the model keeps which    *)
(* inputs they reject.  The fitted coefficients are not computed.          *)
(***************************************************************************)
\* config.TEST_SIZE, in percent
TestSizePct == 20

LabelSet(labels) == {labels[i] : i \in 1..Len(labels)}

CountOf(labels, c) == Cardinality({i \in 1..Len(labels) : labels[i] = c})

\* n_test = ceil(test_size * n_samples)
NTest(n) == (n * TestSizePct + 99) \div 100

NTrain(n) == n - NTest(n)

\* train_test_split(..., stratify=y) raises ValueError: an empty train set, a
\* class with fewer than 2 members, or a split smaller than the number of classes
SplitRaises(labels) ==
    LET n == Len(labels)
        k == Cardinality(LabelSet(labels))
    IN  \/ n = 0
        \/ NTrain(n) = 0
        \/ \E c \in LabelSet(labels) : CountOf(labels, c) < 2
        \/ NTrain(n) < k
        \/ NTest(n) < k

\* the class counts a stratified split may give the train set: each class its
\* floored share, the left-over draws to the classes with the largest
\* remainders (ties are broken by the seeded generator)
TrainCounts(labels) ==
    LET n == Len(labels)
        cs == LabelSet(labels)
        share(c) == (CountOf(labels, c) * NTrain(n)) \div n
        rem(c) == (CountOf(labels, c) * NTrain(n)) % n
        floored == SumOverSet(cs, [c \in cs |-> share(c)])
        need == NTrain(n) - floored
    IN  {[c \in cs |-> share(c) + (IF c \in extra THEN 1 ELSE 0)] :
            extra \in {e \in SUBSET cs :
                        /\ Cardinality(e) = need
                        /\ \A c \in e : \A d \in cs \ e : rem(c) >= rem(d)}}

\* LogisticRegression.fit raises ValueError unless y_train holds 2 classes
FitRaises(trainCounts) ==
    Cardinality({c \in DOMAIN trainCounts : trainCounts[c] > 0}) < 2

\* roc_auc_score raises ValueError when y_test holds one class only
EvalRaises(labels, trainCounts) ==
    Cardinality({c \in DOMAIN trainCounts : CountOf(labels, c) - trainCounts[c] > 0}) < 2

\* a variant that accepts whatever split it is given
TrainingNeverRaises(labels, trainCounts) == FALSE

\* the fit or the evaluation raises for the split with these train counts
TrainingRaises(labels, trainCounts) ==
    FitRaises(trainCounts) \/ EvalRaises(labels, trainCounts)

TrainReturnPredictionModel ==
    /\ pc = "prepared"
    /\ IF SplitRaises(y)
       THEN pc' = "train_error" /\ model' = model
       ELSE \E counts \in TrainCounts(y) :
              IF TrainingRaises(y, counts)
              THEN pc' = "train_error" /\ model' = model
              ELSE /\ pc' = "trained"
                   /\ model' = [fitted |-> TRUE, train_counts |-> counts]
    /\ UNCHANGED <<pipeVars, data, X, y, label_encoders, population, df_with_risk,
                   high_risk_products, high_risk_file>>

(***************************************************************************)
(* return_prediction_model.py: identify_high_risk_products.  Probabilities *)
(* are in percent; which probability the fitted model gives a feature      *)
(* vector is left open.                                                    *)
(***************************************************************************)
\* the probabilities the model tries, in percent
Probabilities == {0, 30, 31, 70, 71, 100}

\* bins=[0, 0.3, 0.7, 1] and labels=['Low', 'Medium', 'High'], in percent
Bins == <<0, 30, 70, 100>>

Labels ==
    <<Str(<<"L", "o", "w">>), Str(<<"M", "e", "d", "i", "u", "m">>),
      Str(<<"H", "i", "g", "h">>)>>

\* pd.cut(p, bins, labels) for one value: bin i is (Bins[i], Bins[i+1]], and a
\* value in no bin gets NaN
RiskCategory(p) ==
    IF \E i \in 1..Len(Labels) : Bins[i] < p /\ p <= Bins[i + 1]
    THEN Labels[CHOOSE i \in 1..Len(Labels) : Bins[i] < p /\ p <= Bins[i + 1]]
    ELSE NA

\* the threshold of df_with_risk['return_probability'] > 0.7, in percent
HighRiskCut == 70

\* the comparison written >= in place of >
IsHighRiskInclusive(r) == r["return_probability"][2] >= HighRiskCut

IsHighRisk(r) == r["return_probability"][2] > HighRiskCut

\* df_with_risk for the probabilities proba, one per row of t
WithRisk(t, proba) ==
    [cols |-> t.cols \o <<"return_probability", "risk_category">>,
     rows |-> [i \in 1..Len(t.rows) |->
                 [k \in ColSet(t) \cup {"return_probability", "risk_category"} |->
                     IF k = "return_probability" THEN Num(proba[i])
                     ELSE IF k = "risk_category" THEN RiskCategory(proba[i])
                     ELSE t.rows[i][k]]]]

\* df_with_risk[df_with_risk['return_probability'] > 0.7]
HighRiskRows(t) == [cols |-> t.cols, rows |-> SelectSeq(t.rows, IsHighRisk)]

\* a table of one new order: the first row of t under another category and version
NewOrder(t, c, v) ==
    [cols |-> t.cols,
     rows |-> <<[t.rows[1] EXCEPT !["Category"] = Str(c), !["Version_clean"] = Str(v)]>>]

\* df_with_risk = df in place of df.copy(): the scores land on the caller's df
DfScoredInPlace(t, scored) == scored

\* the caller's df once identify_high_risk_products has returned: feature_df
\* and df_with_risk are both df.copy(), and every column the function
\* assigns goes to one of the copies
DfAfterScoring(t, scored) == t

\* identify_high_risk_products(df, model, scaler, features, label_encoders):
\* le.transform raises on a value the encoder was not fitted on, before
\* anything is scored
IdentifyHighRiskProducts(t) ==
    /\ pc = "trained"
    /\ IF TransformRaises(t, label_encoders)
       THEN /\ pc' = "score_error"
            /\ population' = t
            /\ UNCHANGED <<df_with_risk, high_risk_products>>
       ELSE LET X_full == SelectColumns(EncodeTable(t, label_encoders), Features)
                vectors == {X_full.rows[i] : i \in 1..Len(X_full.rows)}
            IN  \E predict \in [vectors -> Probabilities] :
                    LET scored == WithRisk(t, [i \in 1..Len(t.rows) |->
                                                  predict[X_full.rows[i]]])
                    IN  /\ df_with_risk' = scored
                        /\ high_risk_products' = HighRiskRows(scored)
                        /\ population' = DfAfterScoring(t, scored)
                        /\ pc' = "scored"
    /\ UNCHANGED <<pipeVars, data, X, y, label_encoders, model, high_risk_file>>

\* the tables the model scores: the training table, or one new order
ScoringInputs(t) ==
    {t} \cup {NewOrder(t, c, v) : c \in {<<"A">>, <<"B">>, <<"C">>}, v \in {<<"S">>, <<"M">>}}

\* __main__ scores the table it trained on; the function takes any table
Identify ==
    /\ pc = "trained"
    /\ \E t \in ScoringInputs(data) : IdentifyHighRiskProducts(t)

(***************************************************************************)
(* return_prediction_model.py: save_high_risk_products                     *)
(***************************************************************************)
OutputColumns ==
    <<"Item Name", "Category", "Version", "Version_clean", "return_probability",
      "risk_category", "Final_Revenue_Abs", "is_return", "Date">>

RECURSIVE InsertByProbability(_, _)
InsertByProbability(sorted, r) ==
    IF sorted = <<>> THEN <<r>>
    ELSE IF Head(sorted)["return_probability"][2] >= r["return_probability"][2]
         THEN <<Head(sorted)>> \o InsertByProbability(Tail(sorted), r)
         ELSE <<r>> \o sorted

RECURSIVE SortByProbabilityDesc(_)
\* sort_values('return_probability', ascending=False); equal values keep their order
SortByProbabilityDesc(rows) ==
    IF rows = <<>> THEN <<>>
    ELSE InsertByProbability(SortByProbabilityDesc(SubSeq(rows, 1, Len(rows) - 1)),
                             rows[Len(rows)])

HighRiskOutput(t) ==
    [cols |-> OutputColumns,
     rows |-> SortByProbabilityDesc(SelectColumns(t, OutputColumns).rows)]

SaveHighRiskProducts ==
    /\ pc = "scored"
    /\ high_risk_file' = ToCsv(HighRiskOutput(high_risk_products))
    /\ pc' = "saved"
    /\ UNCHANGED <<pipeVars, data, X, y, label_encoders, model, population,
                   df_with_risk, high_risk_products>>

(***************************************************************************)
(* The three scripts run in turn on a raw table of two blocks of orders:   *)
(* a returned and b kept ones.                                             *)
(***************************************************************************)
\* largest number of orders in one block
MaxClass == 4

ModelRawTables ==
    {[cols |-> RawColumns,
      rows |-> Repeat(With(With(With(BaseRow, "Category", c1), "Version", v1),
                           "Final Quantity", Num(0 - 1)), a)
               \o Repeat(With(With(BaseRow, "Category", c2), "Version", v2), b)] :
        <<c1, c2, v1, v2, a, b>> \in
            {x \in CategoryValues \X CategoryValues
                   \X {Str(<<"S", "/", "R">>)}
                   \X {Str(<<"S", "/", "R">>), Str(<<"M">>)}
                   \X (0..MaxClass) \X (0..MaxClass) :
                \* at least one order, and a Category column that is not all missing
                \/ (x[5] >= 1 /\ x[1] # NA)
                \/ (x[6] >= 1 /\ x[2] # NA)}}

InitModel ==
    /\ threshold \in Thresholds
    /\ raw \in ModelRawTables
    /\ pc = "start"
    /\ df_clean = NoTable
    /\ cleaned_file = NoTable
    /\ df = NoTable
    /\ results = <<>>
    /\ df_enhanced = NoTable
    /\ analysis_file = NoTable
    /\ ModelNotRun

NextModel ==
    \/ LoadAndClean
    \/ SaveCleaned
    \/ LoadCleanedData
    \/ ComprehensiveReturnAnalysis
    \/ CreateAnalysisDataset
    \/ LoadAnalysisData
    \/ PrepareFeatures
    \/ TrainReturnPredictionModel
    \/ Identify
    \/ SaveHighRiskProducts

SpecModel == InitModel /\ [][NextModel]_vars

(***************************************************************************)
(* Properties of the cleaning and analysis scripts, checked under Spec.    *)
(***************************************************************************)
Cleaned == pc \in {"cleaned", "cleaned_saved", "loaded", "analysed", "enhanced"}

Analysed == pc \in {"analysed", "enhanced"}

\* the table return_analysis.py hands to comprehensive_return_analysis
AnalysisInput == ReadCsv(cleaned_file, {"Date"})

RECURSIVE SumField(_, _)
SumField(gs, f) == IF gs = <<>> THEN 0 ELSE Head(gs)[f] + SumField(Tail(gs), f)

\* C1: in every record of the cleaned table, for every configured threshold,
\* is_return is 1 exactly when the record's Final Quantity is below the
\* threshold and 0 otherwise, records whose raw Final Quantity was missing
\* included.
C1_ReturnFlagMatchesQuantity ==
    Cleaned =>
        \A i \in 1..Len(df_clean.rows) :
            LET r == df_clean.rows[i]
            IN  /\ r["is_return"] \in {Num(0), Num(1)}
                /\ r["is_return"] = Num(1) <=> r["Final Quantity"][2] < threshold

\* C3: version_analysis keeps exactly the Version_clean groups with 10 or more
\* orders: a group of exactly 10 orders is kept, a smaller one is dropped.
C3_VersionGroupsOfTenKept ==
    Analysed =>
        LET groups == VersionGroups(AnalysisInput)
            kept == {results.version_analysis[n].key :
                        n \in 1..Len(results.version_analysis)}
        IN  \A n \in 1..Len(groups) :
                groups[n].key \in kept <=> groups[n].total_orders >= 10

\* C4: for the groupings by Category, by month of Date and by Version_clean
\* (before the minimum-order filter) of the re-read cleaned table, the group
\* order counts add up to the number of records and the group return counts
\* to the sum of is_return.
C4_GroupTotalsMatchTable ==
    Analysed =>
        LET t == AnalysisInput
            n == Len(t.rows)
            returns == SumOver(t, "is_return", 1..n)
            versions == Aggregate(t, "Version_clean")
        IN  /\ SumField(results.category_analysis, "total_orders") = n
            /\ SumField(results.category_analysis, "returns") = returns
            /\ SumField(results.monthly_trends, "total_orders") = n
            /\ SumField(results.monthly_trends, "returns") = returns
            /\ SumField(versions, "total_orders") = n
            /\ SumField(versions, "returns") = returns

\* C8: load_and_clean_data raises on no identifier value; a numeric
\* Transaction ID or Item ID (scientific notation included) becomes its
\* integer value, a missing or non-numeric one passes through unchanged.
C8_IdentifiersConvertedOrKept ==
    pc # "start" =>
        /\ pc # "clean_error"
        /\ \A i \in 1..Len(raw.rows) : \A c \in {"Transaction ID", "Item ID"} :
              LET x == raw.rows[i][c]
                  numeric == IsNum(x) \/ (IsStr(x) /\ IntOfFloatText(x[2]) # ValueError)
              IN  df_clean.rows[i][c] =
                    (IF ~numeric THEN x
                     ELSE IF IsNum(x) THEN x ELSE IntOfFloatText(x[2]))

\* C9: load_and_clean_data raises no error and returns one cleaned record per
\* raw record, in the same order; an unparsable date leaves a null Date, and
\* every missing value of a numeric column is replaced by 0.
C9_CleaningKeepsEveryRow ==
    pc # "start" =>
        /\ pc # "clean_error"
        /\ Len(df_clean.rows) = Len(raw.rows)
        /\ \A i \in 1..Len(raw.rows) :
              /\ \A c \in {"Item Name", "Category", "Version"} :
                    raw.rows[i][c] # NA => df_clean.rows[i][c] = raw.rows[i][c]
              /\ ParseDate(raw.rows[i]["Date"]) = NaT => df_clean.rows[i]["Date"] = NaT
              /\ \A c \in {"Final Quantity", "Final Revenue", "Total Revenue"} :
                    df_clean.rows[i][c] =
                        (IF raw.rows[i][c] = NA THEN Num(0) ELSE raw.rows[i][c])

\* C10: comprehensive_return_analysis leaves the table it is given unchanged:
\* the same columns, rows and values as were loaded from the cleaned file.
C10_AnalysisLeavesTableUnchanged ==
    pc = "analysed" => df = AnalysisInput

(***************************************************************************)
(* Properties of the prediction script, checked under SpecModel.           *)
(***************************************************************************)
Prepared ==
    pc \in {"prepared", "train_error", "trained", "score_error", "scored", "saved"}

TrainingDone == pc \in {"train_error", "trained", "score_error", "scored", "saved"}

ScoringDone == pc \in {"score_error", "scored", "saved"}

EncodedColumn(f) == IF f = "Category" THEN "Category_encoded" ELSE "Version_clean_encoded"

\* the strings of feature f in the training population
TrainingTexts(f) == TextColumn(data, f)

\* how many distinct strings are first met before s
FirstSeenRank(texts, s) ==
    LET order == FirstSeenOrder(texts)
    IN  (CHOOSE i \in 1..Len(order) : order[i] = s) - 1

\* C2: every scored record gets exactly one tier, for every probability in
\* [0,1], both end points included: Low up to 0.3, Medium above 0.3 up to
\* 0.7, High above 0.7.
C2_TierIsTotal ==
    pc \in {"scored", "saved"} =>
        \A i \in 1..Len(df_with_risk.rows) :
            LET p == df_with_risk.rows[i]["return_probability"][2]
            IN  df_with_risk.rows[i]["risk_category"] =
                    (IF p <= 30 THEN Labels[1] ELSE IF p <= 70 THEN Labels[2] ELSE Labels[3])

\* C5: training on labels with a single distinct value fails: no model is
\* returned, nothing is scored and no high-risk file is written.
C5_SingleClassTrainingFails ==
    (TrainingDone /\ Cardinality(LabelSet(y)) < 2) =>
        /\ pc = "train_error"
        /\ model = NoModel
        /\ df_with_risk = NoTable
        /\ high_risk_products = NoTable
        /\ high_risk_file = NoTable

\* a run in which training failed on two or more records all labelled 0
C5_Witness ==
    /\ pc = "train_error"
    /\ Len(y) >= 2
    /\ LabelSet(y) = {Num(0)}

\* the scored population holds a Category or Version_clean string that the
\* training population did not
HasUnseen(t) ==
    \E i \in 1..Len(t.rows) : \E f \in CategoricalFeatures :
        \A j \in 1..Len(data.rows) : AsText(t.rows[i][f]) # TrainingTexts(f)[j]

\* C6: scoring a population with a Category or Version_clean string unseen
\* in training fails: no scored table, no high-risk list and no file come
\* of it, and scoring leaves the encoding table as training built it.
C6_UnseenCategoryFailsScoring ==
    ScoringDone =>
        /\ HasUnseen(population) =>
              /\ pc = "score_error"
              /\ df_with_risk = NoTable
              /\ high_risk_products = NoTable
              /\ high_risk_file = NoTable
        /\ \A f \in CategoricalFeatures :
              {label_encoders[f][n] : n \in 1..Len(label_encoders[f])} =
                  {TrainingTexts(f)[j] : j \in 1..Len(data.rows)}

\* a run in which scoring failed on a population with an unseen string
C6_Witness == pc = "score_error" /\ HasUnseen(population)

\* C7 as claimed: the codes of each feature are a bijection onto 0..k-1 that
\* numbers the strings in the order they are first met in training.
C7_CodesInFirstSeenOrder ==
    Prepared =>
        \A f \in CategoricalFeatures : \A i \in 1..Len(data.rows) :
            X.rows[i][EncodedColumn(f)] =
                Num(FirstSeenRank(TrainingTexts(f), TrainingTexts(f)[i]))

\* C7 as the code has it: the codes of each feature are a bijection between
\* the k distinct strings and 0..k-1 that numbers the strings in ascending
\* order, and encoding the training population again gives the same codes.
C7_CodesInSortedOrder ==
    Prepared =>
        \A f \in CategoricalFeatures :
            LET texts == TrainingTexts(f)
                codes == [i \in 1..Len(data.rows) |-> X.rows[i][EncodedColumn(f)][2]]
                k == Cardinality({texts[i] : i \in 1..Len(texts)})
            IN  /\ {codes[i] : i \in 1..Len(texts)} = 0..(k - 1)
                /\ \A i, j \in 1..Len(texts) :
                      /\ texts[i] = texts[j] <=> codes[i] = codes[j]
                      /\ StrLess(texts[i], texts[j]) <=> codes[i] < codes[j]
                /\ \A i \in 1..Len(texts) :
                      TransformLabel(label_encoders[f], texts[i]) = Num(codes[i])

\* a training population whose first Category sorts after a later one
C7_Witness ==
    /\ pc = "prepared"
    /\ \E i \in 1..Len(data.rows) :
          StrLess(TrainingTexts("Category")[i], TrainingTexts("Category")[1])

\* the records of table t restricted to the columns cs
RecordsOver(t, cs) ==
    [i \in 1..Len(t.rows) |-> [k \in {cs[j] : j \in 1..Len(cs)} |-> t.rows[i][k]]]

\* C11: identify_high_risk_products leaves the table it is given as it was
\* (same columns, same values, nothing added), and the scored table it
\* returns has the records of the input, in order, plus the two columns
\* return_probability and risk_category.
C11_ScoringLeavesInputUnchanged ==
    ScoringDone =>
        /\ population \in ScoringInputs(data)
        /\ \A c \in {"return_probability", "risk_category", "Category_encoded",
                      "Version_clean_encoded"} : c \notin ColSet(population)
        /\ pc # "score_error" =>
              /\ df_with_risk.cols =
                    population.cols \o <<"return_probability", "risk_category">>
              /\ RecordsOver(df_with_risk, population.cols) = population.rows

\* a scored run on two or more records
C11_Witness ==
    /\ pc = "scored"
    /\ Len(population.rows) >= 2
    /\ Len(df_with_risk.rows) = Len(population.rows)
    /\ "return_probability" \in ColSet(df_with_risk)

\* the columns a, in their order, are the first columns of b
IsPrefix(a, b) == Len(a) <= Len(b) /\ SubSeq(b, 1, Len(a)) = a

\* C12: along raw table -> cleaned table -> analysis table every stage keeps
\* the columns of its input, under their names and in their order, and only
\* appends columns: none is removed or renamed.
C12_SchemaAppendOnly ==
    /\ df_clean # NoTable => IsPrefix(raw.cols, df_clean.cols)
    /\ cleaned_file # NoTable => cleaned_file.cols = df_clean.cols
    /\ df # NoTable => IsPrefix(cleaned_file.cols, df.cols)
    /\ df_enhanced # NoTable =>
          /\ IsPrefix(df.cols, df_enhanced.cols)
          /\ IsPrefix(raw.cols, df_enhanced.cols)
          /\ analysis_file.cols = df_enhanced.cols

\* the analysis table is written, and each stage has added columns, on a raw
\* extract that carries a column the scripts do not read
C12_Witness ==
    /\ pc = "enhanced"
    /\ "Buyer ID" \in ColSet(raw)
    /\ Len(raw.cols) < Len(df_clean.cols)
    /\ Len(df_clean.cols) < Len(df_enhanced.cols)

\* the scored records of tier High, in the order of the scored table
TierHighRows == SelectSeq(df_with_risk.rows, LAMBDA r : r["risk_category"] = Labels[3])

\* C13: after scoring, the high-risk list holds exactly the scored records
\* whose tier is High: a record is in the list iff its risk_category is
\* High, and no record of tier Low or Medium or without a tier is in it.
C13_HighRiskListIsTierHigh ==
    pc \in {"scored", "saved"} =>
        /\ high_risk_products.cols = df_with_risk.cols
        /\ high_risk_products.rows = TierHighRows
        /\ \A i \in 1..Len(high_risk_products.rows) :
              high_risk_products.rows[i]["risk_category"] \notin {Labels[1], Labels[2], NA}

\* a scored run with a record in the list and, outside it, a record at the
\* cut point 0.7 or without a tier
C13_Witness ==
    /\ pc = "scored"
    /\ Len(high_risk_products.rows) >= 1
    /\ \E i \in 1..Len(df_with_risk.rows) :
          /\ df_with_risk.rows[i]["return_probability"] \in {Num(HighRiskCut), Num(0)}
          /\ \A j \in 1..Len(high_risk_products.rows) :
                high_risk_products.rows[j] # df_with_risk.rows[i]

====
